---- MODULE Spec2Model ----
(***************************************************************************)
(* Model of the ingestion-and-classification pipeline of the Sedentary     *)
(* Activity Tracker backend: DataProcessor (data_processor.py) and         *)
(* SerialReader (serial_reader.py), with the callers in main.py.           *)
(*                                                                         *)
(* Numbers.  delta_mag is a float in the source; here it is an integer     *)
(* count of hundredths (0.5 is 50).  A mean sum/len is kept as the exact   *)
(* pair [num, den], compared with a threshold T by num >= T * den, so no   *)
(* rounding is introduced by the model.  Confidences are in tenths (1.0 is *)
(* 10), active_percentage is in hundredths of a percent (the source rounds *)
(* to two decimals).  None is NoTime for a timestamp.                      *)
(***************************************************************************)
EXTENDS Integers, Sequences, FiniteSets, TLC

(* ---- program constants (config.py, serial_reader.py) ---- *)
DELTA_MAG_ACTIVE_THRESHOLD == 50
DELTA_MAG_TRANSITION_THRESHOLD == 20
MOVING_AVERAGE_WINDOW == 5
SEDENTARY_THRESHOLD_SECONDS == 20

(* ---- bounds of the model ---- *)
\* updates applied to the aggregator between two resets
MaxReadings == 3
\* the same, in the runs whose readings differ in delta_mag alone
MaxQuiet == 7
\* calls of process_reading in the runs of the two-thread specification
MaxConcUpdates == 2
\* read-loop threads one SerialReader starts in a run
MaxThreads == 2
\* lines the device sends in a run
MaxLines == 1
\* fields of the longest line given to the parser
MaxFields == 6

(* ---- input domains: the field values a parsed line can carry ---- *)
NoTime == 0
Timestamps == {1}
PirValues == {0, 1}
DeltaValues == {10, 30, 70}
InactiveValues == {0, 20, 21}
AlertedValues == {0, 1}

\* models.SensorReading
SensorReading ==
  [timestamp : Timestamps, pir : PirValues, delta_mag : DeltaValues,
   inactive_seconds : InactiveValues, alerted : AlertedValues]

ACTIVE == "active"
INACTIVE == "inactive"
TRANSITION == "transition"

(* ---- helpers ---- *)
RECURSIVE SumSeq(_)
SumSeq(s) == IF s = <<>> THEN 0 ELSE Head(s) + SumSeq(Tail(s))

Min(a, b) == IF a <= b THEN a ELSE b

\* the last k elements of s (all of s when it is shorter)
LastN(s, k) == SubSeq(s, Len(s) - Min(k, Len(s)) + 1, Len(s))

\* num/den >= t, for den > 0
RatGeq(q, t) == q.num >= t * q.den

\* round(n/d) to the nearest integer, ties to even (Python's round)
RoundHalfEven(n, d) ==
  LET q == n \div d
      r == n % d
  IN  IF 2 * r < d THEN q
      ELSE IF 2 * r > d THEN q + 1
      ELSE IF q % 2 = 0 THEN q ELSE q + 1

(* ======================= DataProcessor ======================= *)

\* DataProcessor.__init__
NewDataProcessor ==
  [delta_mag_buffer |-> <<>>,
   last_movement_time |-> NoTime,
   current_inactive_seconds |-> 0,
   is_alerted |-> FALSE,
   total_readings |-> 0,
   total_active_readings |-> 0,
   total_inactive_readings |-> 0,
   alert_count |-> 0,
   longest_inactive_period |-> 0,
   current_inactive_streak |-> 0]

\* a deque whose maxlen was left out
DequeAppendKeepsAll(buf, x) == Append(buf, x)

\* deque(maxlen=MOVING_AVERAGE_WINDOW).append: a full deque drops its oldest
DequeAppend(buf, x) ==
  IF Len(buf) >= MOVING_AVERAGE_WINDOW
  THEN Tail(buf) \o <<x>>
  ELSE Append(buf, x)

\* sum(buffer) / len(buffer), for a non-empty buffer
Mean(buf) == [num |-> SumSeq(buf), den |-> Len(buf)]

\* a filter that appends to the window and returns its input unsmoothed
apply_moving_average_unsmoothed(self, delta_mag) ==
  [buffer |-> DequeAppend(self.delta_mag_buffer, delta_mag),
   value |-> [num |-> delta_mag, den |-> 1]]

\* apply_moving_average: the new buffer and the returned value
apply_moving_average(self, delta_mag) ==
  LET buf == DequeAppend(self.delta_mag_buffer, delta_mag)
  IN  [buffer |-> buf,
       value |-> IF Len(buf) = 0
                 THEN [num |-> delta_mag, den |-> 1]
                 ELSE Mean(buf)]

\* the thresholds compared with > where the source has >=
classify_activity_strict(pir, delta_mag_smoothed) ==
  LET pir_motion == (pir = 1)
  IN  IF delta_mag_smoothed.num > DELTA_MAG_ACTIVE_THRESHOLD * delta_mag_smoothed.den
      THEN IF pir_motion THEN <<ACTIVE, 10>> ELSE <<ACTIVE, 8>>
      ELSE IF delta_mag_smoothed.num
                > DELTA_MAG_TRANSITION_THRESHOLD * delta_mag_smoothed.den
      THEN IF pir_motion THEN <<ACTIVE, 7>> ELSE <<TRANSITION, 6>>
      ELSE IF pir_motion THEN <<ACTIVE, 6>> ELSE <<INACTIVE, 9>>

\* classify_activity: (ActivityState, confidence)
classify_activity(pir, delta_mag_smoothed) ==
  LET pir_motion == (pir = 1)
  IN  IF RatGeq(delta_mag_smoothed, DELTA_MAG_ACTIVE_THRESHOLD)
      THEN IF pir_motion THEN <<ACTIVE, 10>> ELSE <<ACTIVE, 8>>
      ELSE IF RatGeq(delta_mag_smoothed, DELTA_MAG_TRANSITION_THRESHOLD)
      THEN IF pir_motion THEN <<ACTIVE, 7>> ELSE <<TRANSITION, 6>>
      ELSE IF pir_motion THEN <<ACTIVE, 6>> ELSE <<INACTIVE, 9>>

\* the longest period overwritten by every non-Active reading
UpdateStatisticsLastWins(self, reading, activity_state) ==
  IF activity_state = ACTIVE
  THEN [self EXCEPT !.total_active_readings = @ + 1,
                    !.last_movement_time = reading.timestamp,
                    !.current_inactive_streak = 0,
                    !.is_alerted = FALSE]
  ELSE [self EXCEPT !.total_inactive_readings = @ + 1,
                    !.current_inactive_streak = @ + 1,
                    !.longest_inactive_period = reading.inactive_seconds]

\* a Transition reading counted neither as active nor as inactive
UpdateStatisticsTransitionUncounted(self, reading, activity_state) ==
  IF activity_state = ACTIVE
  THEN [self EXCEPT !.total_active_readings = @ + 1,
                    !.last_movement_time = reading.timestamp,
                    !.current_inactive_streak = 0,
                    !.is_alerted = FALSE]
  ELSE [self EXCEPT !.total_inactive_readings =
                       IF activity_state = INACTIVE THEN @ + 1 ELSE @,
                    !.current_inactive_streak = @ + 1,
                    !.longest_inactive_period =
                       IF reading.inactive_seconds > @
                       THEN reading.inactive_seconds ELSE @]

\* lines 115-126 of process_reading: the counters after the classification
UpdateStatistics(self, reading, activity_state) ==
  IF activity_state = ACTIVE
  THEN [self EXCEPT !.total_active_readings = @ + 1,
                    !.last_movement_time = reading.timestamp,
                    !.current_inactive_streak = 0,
                    !.is_alerted = FALSE]
  ELSE [self EXCEPT !.total_inactive_readings = @ + 1,
                    !.current_inactive_streak = @ + 1,
                    !.longest_inactive_period =
                       IF reading.inactive_seconds > @
                       THEN reading.inactive_seconds ELSE @]

\* the alert counted without setting the debounce flag
TrackAlertsNoDebounce(self, reading) ==
  IF reading.alerted = 1 /\ ~self.is_alerted
  THEN [self EXCEPT !.alert_count = @ + 1]
  ELSE self

\* every alerted reading counted, whatever the debounce flag
TrackAlertsEveryReading(self, reading) ==
  IF reading.alerted = 1
  THEN [self EXCEPT !.alert_count = @ + 1, !.is_alerted = TRUE]
  ELSE self

\* lines 128-131 of process_reading: the debounced alert counter
TrackAlerts(self, reading) ==
  IF reading.alerted = 1 /\ ~self.is_alerted
  THEN [self EXCEPT !.alert_count = @ + 1, !.is_alerted = TRUE]
  ELSE self

\* process_reading run to completion: the new object and the ProcessedReading
process_reading(self, reading) ==
  LET sm == apply_moving_average(self, reading.delta_mag)
      cl == classify_activity(reading.pir, sm.value)
      s1 == [self EXCEPT !.delta_mag_buffer = sm.buffer,
                         !.total_readings = @ + 1]
      s2 == UpdateStatistics(s1, reading, cl[1])
      s3 == TrackAlerts(s2, reading)
      s4 == [s3 EXCEPT !.current_inactive_seconds = reading.inactive_seconds]
  IN  [self |-> s4,
       result |-> [timestamp |-> reading.timestamp,
                   pir |-> reading.pir,
                   delta_mag |-> reading.delta_mag,
                   delta_mag_smoothed |-> sm.value,
                   inactive_seconds |-> reading.inactive_seconds,
                   alerted |-> reading.alerted,
                   activity_state |-> cl[1],
                   confidence |-> cl[2]]]

\* get_current_status with the sedentary test strict (> instead of >=)
get_current_status_exceeds(self) ==
  LET activity_state ==
        IF self.current_inactive_seconds > SEDENTARY_THRESHOLD_SECONDS
        THEN INACTIVE
        ELSE IF Len(self.delta_mag_buffer) > 0
        THEN IF RatGeq(Mean(self.delta_mag_buffer), DELTA_MAG_ACTIVE_THRESHOLD)
             THEN ACTIVE
             ELSE IF RatGeq(Mean(self.delta_mag_buffer),
                            DELTA_MAG_TRANSITION_THRESHOLD)
             THEN TRANSITION
             ELSE INACTIVE
        ELSE INACTIVE
  IN  [activity_state |-> activity_state,
       inactive_seconds |-> self.current_inactive_seconds,
       is_alerted |-> self.is_alerted,
       last_movement_is_now |-> (self.last_movement_time = NoTime),
       last_movement |-> self.last_movement_time,
       confidence |-> IF self.total_readings > MOVING_AVERAGE_WINDOW
                      THEN 9 ELSE 5]

\* get_current_status
get_current_status(self) ==
  LET activity_state ==
        IF self.current_inactive_seconds >= SEDENTARY_THRESHOLD_SECONDS
        THEN INACTIVE
        ELSE IF Len(self.delta_mag_buffer) > 0
        THEN IF RatGeq(Mean(self.delta_mag_buffer), DELTA_MAG_ACTIVE_THRESHOLD)
             THEN ACTIVE
             ELSE IF RatGeq(Mean(self.delta_mag_buffer),
                            DELTA_MAG_TRANSITION_THRESHOLD)
             THEN TRANSITION
             ELSE INACTIVE
        ELSE INACTIVE
  IN  [activity_state |-> activity_state,
       inactive_seconds |-> self.current_inactive_seconds,
       is_alerted |-> self.is_alerted,
       last_movement_is_now |-> (self.last_movement_time = NoTime),
       last_movement |-> self.last_movement_time,
       confidence |-> IF self.total_readings > MOVING_AVERAGE_WINDOW
                      THEN 9 ELSE 5]

\* models.SessionStats as built by get_session_stats
SessionStats(total, active, inactive, longest, alerts, pct) ==
  [total_readings |-> total,
   total_active_time_seconds |-> active,
   total_inactive_time_seconds |-> inactive,
   longest_inactive_period_seconds |-> longest,
   alert_count |-> alerts,
   active_percentage |-> pct]

AllZeroStats == SessionStats(0, 0, 0, 0, 0, 0)

\* get_session_stats
get_session_stats(self) ==
  IF self.total_readings = 0
  THEN AllZeroStats
  ELSE SessionStats(self.total_readings,
                    self.total_active_readings,
                    self.total_inactive_readings,
                    self.longest_inactive_period,
                    self.alert_count,
                    RoundHalfEven(self.total_active_readings * 10000,
                                  self.total_readings))

\* a reset that leaves total_readings as it was
reset_stats_keeps_total(self) ==
  [self EXCEPT !.delta_mag_buffer = <<>>,
               !.last_movement_time = NoTime,
               !.current_inactive_seconds = 0,
               !.is_alerted = FALSE,
               !.total_active_readings = 0,
               !.total_inactive_readings = 0,
               !.alert_count = 0,
               !.longest_inactive_period = 0,
               !.current_inactive_streak = 0]

\* reset_stats
reset_stats(self) ==
  [self EXCEPT !.delta_mag_buffer = <<>>,
               !.last_movement_time = NoTime,
               !.current_inactive_seconds = 0,
               !.is_alerted = FALSE,
               !.total_readings = 0,
               !.total_active_readings = 0,
               !.total_inactive_readings = 0,
               !.alert_count = 0,
               !.longest_inactive_period = 0,
               !.current_inactive_streak = 0]

(* ============ the aggregator used by one thread ============ *)

VARIABLES
  dp,      \* the DataProcessor instance (main.data_processor)
  ret,     \* the last call on it and the value it returned
  \* history variables, read only by the properties
  seen,    \* what the sequential runs have done since the last update or reset
  hist,    \* the deltas smoothed since start or the last reset
  run,     \* a run of alerted, non-Active readings that ends at the last update
  results, \* the ProcessedReadings returned since start or the last reset
  \* the aggregator shared by the read loop's thread and a request's thread
  upd,     \* the read loop's thread inside process_reading: line and locals
  api,     \* the request's thread inside get_session_stats or reset_stats
  race,    \* history variable: a reset and the updates that overlapped it
  \* the SerialReader instance (serial_reader._serial_reader) and its threads
  is_running,
  serial_connection,   \* "None", or the serial.Serial object: "open" or "closed"
  read_thread,         \* 0 for None, or the thread last created
  data_queue,
  recent_readings,
  on_reading_callback, \* whether a callback is registered
  thr,        \* the read-loop threads: the line each runs next, its local reading
  caller,     \* the thread that calls the reader: where it is inside stop_reading
  lines_read, \* lines the device has sent so far
  call        \* history variable: the last call on the reader that returned,
              \* with the reader as it was before the call and at its return

VARIABLES
  sent,    \* the line given to parse_csv_line: the fields it was written from
           \* and its text
  parsed   \* what parse_csv_line made of it

NoRun == [n |-> 0, base |-> 0, flag |-> FALSE]

InitSeen ==
  [episode_alerts |-> 0,   \* alerts counted in the current run of non-Active readings
   episode_flagged |-> 0,  \* readings of that run that carry alerted = 1
   longest_before |-> 0,   \* longest_inactive_period before the last update
   resets |-> 0,           \* resets since the last update, counted up to 2
   reset_from |-> 0]       \* total_readings when the first of them was called

InitAgg ==
  /\ dp = NewDataProcessor
  /\ ret = [op |-> "init", val |-> <<>>]
  /\ seen = InitSeen
  /\ hist = <<>>
  /\ run = NoRun
  /\ results = <<>>

\* no reading: the locals of a thread that is not inside process_reading
NoReading ==
  [timestamp |-> NoTime, pir |-> 0, delta_mag |-> 0, inactive_seconds |-> 0,
   alerted |-> 0]

UpdIdle(calls) ==
  [pc |-> "idle", reading |-> NoReading, sum |-> 0,
   delta_mag_smoothed |-> [num |-> 0, den |-> 1],
   activity_state |-> INACTIVE, confidence |-> 0, tmp |-> 0, calls |-> calls]

ApiIdle ==
  [pc |-> "idle", active |-> 0, active_percentage |-> 0, stats |-> AllZeroStats]

NoRace == [phase |-> "idle", overlaps |-> 0, reading |-> NoReading]

InitConc ==
  /\ upd = UpdIdle(0)
  /\ api = ApiIdle
  /\ race = NoRace

aggVars == <<dp, seen, hist, run, results, upd, api, race>>

readerVars ==
  <<is_running, serial_connection, read_thread, data_queue, recent_readings,
    on_reading_callback, thr, caller, lines_read>>

Threads == 1..MaxThreads

Alive(t) == thr[t].pc \notin {"unstarted", "done"}

\* the attributes of the reader and its live read loops, as a caller sees them
ReaderState ==
  [is_running |-> is_running,
   serial_connection |-> serial_connection,
   read_thread |-> read_thread,
   data_queue |-> data_queue,
   recent_readings |-> recent_readings,
   on_reading_callback |-> on_reading_callback,
   loops |-> {t \in Threads : Alive(t)}]

NoCall == [op |-> "none"]

\* the call op returns val: what the history variable records of it
Observe(op, val, before) ==
  call' = [op |-> op, val |-> val, before |-> before, after |-> ReaderState']

\* stopped and failed are history: stop_reading was called while the loop was
\* running; a read error or an exception of the callback was caught in it
NewThread ==
  [pc |-> "unstarted", reading |-> 0, stopped |-> FALSE, failed |-> FALSE]

\* SerialReader.__init__
InitReader ==
  /\ is_running = FALSE
  /\ serial_connection = "None"
  /\ read_thread = 0
  /\ data_queue = <<>>
  /\ recent_readings = <<>>
  /\ on_reading_callback = FALSE
  /\ thr = [t \in Threads |-> NewThread]
  /\ caller = [pc |-> "idle"]
  /\ lines_read = 0
  /\ call = NoCall

parseVars == <<sent, parsed>>

InitParse ==
  /\ sent = [fields |-> <<>>, text |-> <<>>]
  /\ parsed = [kind |-> "not parsed"]

Init == InitAgg /\ InitConc /\ InitReader /\ InitParse

\* what the calls on the aggregator by one thread leave alone
SeqFrame == UNCHANGED <<upd, api, race, readerVars, call, parseVars>>
\* what the two threads on the aggregator leave alone
ConcFrame ==
  UNCHANGED <<seen, hist, run, results, readerVars, call, parseVars>>
\* what the reader and its threads leave alone
ReaderFrame == UNCHANGED <<aggVars, parseVars>>
\* what the parser leaves alone
ParseFrame == UNCHANGED <<aggVars, readerVars, call>>

\* one callback of the read loop: data_processor.process_reading(reading)
ProcessReading(reading) ==
  /\ LET out == process_reading(dp, reading)
     IN  /\ dp' = out.self
         /\ ret' = [op |-> "process_reading", val |-> out.result]
         /\ seen' = [episode_alerts |->
                        IF out.result.activity_state = ACTIVE THEN 0
                        ELSE seen.episode_alerts
                               + (out.self.alert_count - dp.alert_count),
                     episode_flagged |->
                        IF out.result.activity_state = ACTIVE THEN 0
                        ELSE seen.episode_flagged
                               + (IF reading.alerted = 1 THEN 1 ELSE 0),
                     longest_before |-> dp.longest_inactive_period,
                     resets |-> 0,
                     reset_from |-> 0]
  /\ SeqFrame

\* GET /api/stats
GetSessionStats ==
  /\ ret' = [op |-> "get_session_stats", val |-> get_session_stats(dp)]
  /\ UNCHANGED <<dp, seen, hist, run, results>>
  /\ SeqFrame

\* GET /api/status
GetCurrentStatus ==
  /\ ret' = [op |-> "get_current_status", val |-> get_current_status(dp)]
  /\ UNCHANGED <<dp, seen, hist, run, results>>
  /\ SeqFrame

\* POST /api/reset-stats
ResetStats ==
  /\ dp' = reset_stats(dp)
  /\ ret' = [op |-> "reset_stats", val |-> <<>>]
  /\ seen' = [InitSeen EXCEPT
               !.resets = Min(seen.resets + 1, 2),
               !.reset_from = IF seen.resets = 0 THEN dp.total_readings
                              ELSE seen.reset_from]
  /\ hist' = <<>>
  /\ run' = NoRun
  /\ results' = <<>>
  /\ SeqFrame

vars ==
  <<dp, ret, seen, hist, run, results, upd, api, race, readerVars, call,
    parseVars>>

Next ==
  \/ \E reading \in SensorReading :
       /\ dp.total_readings < MaxReadings
       /\ ProcessReading(reading)
       /\ UNCHANGED <<hist, run, results>>
  \/ GetSessionStats
  \/ GetCurrentStatus
  \/ ResetStats

Spec == Init /\ [][Next]_vars

(* ---- long runs of readings that differ in delta_mag alone ---- *)

QuietReadings ==
  {r \in SensorReading : r.pir = 0 /\ r.inactive_seconds = 0 /\ r.alerted = 0}

NextSmooth ==
  \/ \E reading \in QuietReadings :
       /\ dp.total_readings < MaxQuiet
       /\ ProcessReading(reading)
       /\ hist' = Append(hist, reading.delta_mag)
       /\ UNCHANGED <<run, results>>
  \/ GetSessionStats
  \/ GetCurrentStatus
  \/ ResetStats

SpecSmooth == Init /\ [][NextSmooth]_vars

(* ---- runs of alerted readings ---- *)

\* the update extends the run that ends here, or a new run is taken to start at it
ObserveRun(reading) ==
  LET inrun == reading.alerted = 1 /\ ret'.val.activity_state # ACTIVE
      fresh == [n |-> 1, base |-> dp.alert_count, flag |-> dp.is_alerted]
  IN  run' \in IF ~inrun THEN {NoRun}
               ELSE IF run.n = 0 THEN {fresh}
               ELSE {fresh, [run EXCEPT !.n = @ + 1]}

NextRuns ==
  \/ \E reading \in SensorReading :
       /\ dp.total_readings < MaxReadings
       /\ ProcessReading(reading)
       /\ ObserveRun(reading)
       /\ UNCHANGED <<hist, results>>
  \/ GetSessionStats
  \/ GetCurrentStatus
  \/ ResetStats

SpecRuns == Init /\ [][NextRuns]_vars

(* ---- the readings of the end-to-end scenario, in any order ---- *)

\* deltas 0.05, 0.1 and 0.6; inactive_seconds 0 and 1; no alert
ScenarioReadings ==
  [timestamp : Timestamps, pir : PirValues, delta_mag : {5, 10, 60},
   inactive_seconds : {0, 1}, alerted : {0}]

NextScenario ==
  \/ \E reading \in ScenarioReadings :
       /\ dp.total_readings < MaxReadings
       /\ ProcessReading(reading)
       /\ results' = Append(results, ret'.val)
       /\ UNCHANGED <<hist, run>>
  \/ GetSessionStats
  \/ GetCurrentStatus
  \/ ResetStats

SpecScenario == Init /\ [][NextScenario]_vars

(* ====== the aggregator shared by two threads, line by line ====== *)
(* main.py hands data_processor to the read loop's thread (the callback)   *)
(* and to the threads that serve the requests.  DataProcessor takes no     *)
(* lock, so the threads interleave between any two loads and stores of its *)
(* attributes: x += 1 is a load and a store.  A pc names the source line   *)
(* of data_processor.py that runs next.                                    *)

\* line 45 done or not, line 47 and line 50 may see a buffer that a reset cleared
ConcReadings ==
  {r \in SensorReading :
     r.delta_mag = 10 /\ r.inactive_seconds = 21 /\ r.alerted = 1}

UpdBusy == upd.pc # "idle"
Resetting == api.pc \in {"L195", "L196", "L197", "L198", "L199", "L200",
                         "L201", "L202", "L203", "L204"}

\* the update returns or raises: what the history variable records
RaceAfterUpdate ==
  CASE race.phase = "drain" -> [race EXCEPT !.phase = "settled"]
    [] race.phase = "void" /\ ~Resetting -> NoRace
    [] OTHER -> race

\* process_reading is entered with a reading (the callback of the read loop)
U_Begin(reading) ==
  /\ upd.pc = "idle"
  /\ upd.calls < MaxConcUpdates
  /\ upd' = [UpdIdle(upd.calls + 1) EXCEPT !.pc = "L45", !.reading = reading]
  /\ race' = CASE race.phase = "reset" ->
                    [race EXCEPT !.overlaps = @ + 1, !.reading = reading]
               [] race.phase = "settled" -> NoRace
               [] OTHER -> race
  /\ UNCHANGED <<dp, ret, api>>
  /\ ConcFrame

UpdStep(from) == upd.pc = from /\ UNCHANGED <<ret, api, race>> /\ ConcFrame

Classified(smoothed, to) ==
  LET cl == classify_activity(upd.reading.pir, smoothed)
  IN  [upd EXCEPT !.pc = to, !.delta_mag_smoothed = smoothed,
                  !.activity_state = cl[1], !.confidence = cl[2], !.sum = 0]

\* self.x += 1, first half: the attribute is loaded
LoadCounter(from, field, to) ==
  /\ UpdStep(from)
  /\ upd' = [upd EXCEPT !.pc = to, !.tmp = dp[field]]
  /\ UNCHANGED dp

\* self.x += 1, second half: the sum is stored
StoreCounter(from, field, to) ==
  /\ UpdStep(from)
  /\ dp' = [dp EXCEPT ![field] = upd.tmp + 1]
  /\ upd' = [upd EXCEPT !.pc = to, !.tmp = 0]

\* self.x = value
StoreField(from, field, value, to) ==
  /\ UpdStep(from)
  /\ dp' = [dp EXCEPT ![field] = value]
  /\ upd' = [upd EXCEPT !.pc = to]

U_L45 ==
  /\ UpdStep("L45")
  /\ dp' = [dp EXCEPT !.delta_mag_buffer = DequeAppend(@, upd.reading.delta_mag)]
  /\ upd' = [upd EXCEPT !.pc = "L47"]

U_L47 ==
  /\ UpdStep("L47")
  /\ upd' = IF Len(dp.delta_mag_buffer) = 0
            THEN Classified([num |-> upd.reading.delta_mag, den |-> 1], "L113")
            ELSE [upd EXCEPT !.pc = "L50"]
  /\ UNCHANGED dp

\* line 50, sum(self.delta_mag_buffer)
U_L50_sum ==
  /\ UpdStep("L50")
  /\ upd' = [upd EXCEPT !.pc = "L50_len", !.sum = SumSeq(dp.delta_mag_buffer)]
  /\ UNCHANGED dp

\* line 50, / len(self.delta_mag_buffer), then lines 107-110
U_L50_div ==
  /\ UpdStep("L50_len")
  /\ Len(dp.delta_mag_buffer) > 0
  /\ upd' = Classified([num |-> upd.sum, den |-> Len(dp.delta_mag_buffer)], "L113")
  /\ UNCHANGED dp

\* line 50 divides by zero: ZeroDivisionError leaves process_reading and the
\* callback, and _read_loop catches it
U_L50_raise ==
  /\ upd.pc = "L50_len"
  /\ Len(dp.delta_mag_buffer) = 0
  /\ upd' = UpdIdle(upd.calls)
  /\ race' = RaceAfterUpdate
  /\ UNCHANGED <<dp, ret, api>>
  /\ ConcFrame

U_L113_load == LoadCounter("L113", "total_readings", "L113_store")
U_L113_store ==
  StoreCounter("L113_store", "total_readings",
               IF upd.activity_state = ACTIVE THEN "L116" ELSE "L121")
U_L116_load == LoadCounter("L116", "total_active_readings", "L116_store")
U_L116_store == StoreCounter("L116_store", "total_active_readings", "L117")
U_L117 == StoreField("L117", "last_movement_time", upd.reading.timestamp, "L118")
U_L118 == StoreField("L118", "current_inactive_streak", 0, "L119")
U_L119 == StoreField("L119", "is_alerted", FALSE, "L129")
U_L121_load == LoadCounter("L121", "total_inactive_readings", "L121_store")
U_L121_store == StoreCounter("L121_store", "total_inactive_readings", "L122")
U_L122_load == LoadCounter("L122", "current_inactive_streak", "L122_store")
U_L122_store == StoreCounter("L122_store", "current_inactive_streak", "L125")

U_L125 ==
  /\ UpdStep("L125")
  /\ upd' = [upd EXCEPT !.pc =
               IF upd.reading.inactive_seconds > dp.longest_inactive_period
               THEN "L126" ELSE "L129"]
  /\ UNCHANGED dp

U_L126 ==
  StoreField("L126", "longest_inactive_period", upd.reading.inactive_seconds,
             "L129")

U_L129 ==
  /\ UpdStep("L129")
  /\ upd' = [upd EXCEPT !.pc =
               IF upd.reading.alerted = 1 /\ ~dp.is_alerted
               THEN "L130" ELSE "L133"]
  /\ UNCHANGED dp

U_L130_load == LoadCounter("L130", "alert_count", "L130_store")
U_L130_store == StoreCounter("L130_store", "alert_count", "L131")
U_L131 == StoreField("L131", "is_alerted", TRUE, "L133")

\* line 133, then the ProcessedReading is built from locals and returned
U_L133 ==
  /\ upd.pc = "L133"
  /\ dp' = [dp EXCEPT !.current_inactive_seconds = upd.reading.inactive_seconds]
  /\ upd' = UpdIdle(upd.calls)
  /\ race' = RaceAfterUpdate
  /\ UNCHANGED <<ret, api>>
  /\ ConcFrame

UpdNext ==
  \/ \E reading \in ConcReadings : U_Begin(reading)
  \/ U_L45 \/ U_L47 \/ U_L50_sum \/ U_L50_div \/ U_L50_raise
  \/ U_L113_load \/ U_L113_store
  \/ U_L116_load \/ U_L116_store \/ U_L117 \/ U_L118 \/ U_L119
  \/ U_L121_load \/ U_L121_store \/ U_L122_load \/ U_L122_store
  \/ U_L125 \/ U_L126
  \/ U_L129 \/ U_L130_load \/ U_L130_store \/ U_L131
  \/ U_L133

(* ---- a request's thread: GET /api/stats ---- *)

S_Begin ==
  /\ api.pc = "idle"
  /\ api' = [ApiIdle EXCEPT !.pc = "L172"]
  /\ ret' = [op |-> "running", val |-> <<>>]
  /\ UNCHANGED <<dp, upd, race>>
  /\ ConcFrame

ApiStep(from) == api.pc = from /\ UNCHANGED <<dp, upd, race>> /\ ConcFrame

ApiReturn(op, val) ==
  /\ api' = ApiIdle
  /\ ret' = [op |-> op, val |-> val]

S_L172 ==
  /\ ApiStep("L172")
  /\ IF dp.total_readings = 0
     THEN ApiReturn("get_session_stats", AllZeroStats)
     ELSE api' = [api EXCEPT !.pc = "L182"] /\ UNCHANGED ret

\* line 182, self.total_active_readings
S_L182_active ==
  /\ ApiStep("L182")
  /\ api' = [api EXCEPT !.pc = "L182_total", !.active = dp.total_active_readings]
  /\ UNCHANGED ret

\* line 182, / self.total_readings) * 100; rounded at line 190.  The divisor
\* is not 0: line 172 saw it positive, only reset_stats stores 0 in it, and
\* the one request thread modelled here is inside get_session_stats.
S_L182_div ==
  /\ ApiStep("L182_total")
  /\ api' = [api EXCEPT !.pc = "L185", !.active = 0,
               !.active_percentage =
                  RoundHalfEven(api.active * 10000, dp.total_readings)]
  /\ UNCHANGED ret

\* one keyword argument of SessionStats(...) is evaluated
LoadStat(from, stat, field, to) ==
  /\ ApiStep(from)
  /\ api' = [api EXCEPT !.pc = to, !.stats[stat] = dp[field]]
  /\ UNCHANGED ret

S_L185 == LoadStat("L185", "total_readings", "total_readings", "L186")
S_L186 ==
  LoadStat("L186", "total_active_time_seconds", "total_active_readings", "L187")
S_L187 ==
  LoadStat("L187", "total_inactive_time_seconds", "total_inactive_readings",
           "L188")
S_L188 ==
  LoadStat("L188", "longest_inactive_period_seconds", "longest_inactive_period",
           "L189")

\* line 189, then line 190 and the return
S_L189 ==
  /\ ApiStep("L189")
  /\ ApiReturn("get_session_stats",
               [api.stats EXCEPT !.alert_count = dp.alert_count,
                                 !.active_percentage = api.active_percentage])

StatsNext ==
  \/ S_Begin \/ S_L172 \/ S_L182_active \/ S_L182_div
  \/ S_L185 \/ S_L186 \/ S_L187 \/ S_L188 \/ S_L189

(* ---- a request's thread: POST /api/reset-stats ---- *)

R_Begin ==
  /\ api.pc = "idle"
  /\ api' = [ApiIdle EXCEPT !.pc = "L195"]
  /\ ret' = [op |-> "running", val |-> <<>>]
  /\ race' = IF race.phase \in {"idle", "settled"}
             THEN [phase |-> "reset",
                   overlaps |-> IF UpdBusy THEN 1 ELSE 0,
                   reading |-> upd.reading]
             ELSE [race EXCEPT !.phase = "void"]
  /\ UNCHANGED <<dp, upd>>
  /\ ConcFrame

ResetField(from, field, value, to) ==
  /\ api.pc = from
  /\ dp' = [dp EXCEPT ![field] = value]
  /\ api' = [api EXCEPT !.pc = to]
  /\ UNCHANGED <<ret, upd, race>>
  /\ ConcFrame

R_L195 == ResetField("L195", "delta_mag_buffer", <<>>, "L196")
R_L196 == ResetField("L196", "last_movement_time", NoTime, "L197")
R_L197 == ResetField("L197", "current_inactive_seconds", 0, "L198")
R_L198 == ResetField("L198", "is_alerted", FALSE, "L199")
R_L199 == ResetField("L199", "total_readings", 0, "L200")
R_L200 == ResetField("L200", "total_active_readings", 0, "L201")
R_L201 == ResetField("L201", "total_inactive_readings", 0, "L202")
R_L202 == ResetField("L202", "alert_count", 0, "L203")
R_L203 == ResetField("L203", "longest_inactive_period", 0, "L204")

\* line 204, and reset_stats returns
R_L204 ==
  /\ api.pc = "L204"
  /\ dp' = [dp EXCEPT !.current_inactive_streak = 0]
  /\ ApiReturn("reset_stats", <<>>)
  /\ race' = CASE race.phase = "reset" ->
                    [race EXCEPT !.phase = IF UpdBusy THEN "drain" ELSE "settled"]
               [] race.phase = "void" /\ ~UpdBusy -> NoRace
               [] OTHER -> race
  /\ UNCHANGED upd
  /\ ConcFrame

ResetNext ==
  \/ R_Begin \/ R_L195 \/ R_L196 \/ R_L197 \/ R_L198 \/ R_L199
  \/ R_L200 \/ R_L201 \/ R_L202 \/ R_L203 \/ R_L204

NextConc == UpdNext \/ StatsNext \/ ResetNext

SpecConc == Init /\ [][NextConc]_vars

(* ======================= SerialReader ======================= *)
(* One SerialReader, the thread that calls it (main.py: lifespan and the   *)
(* reconnect endpoint call connect, start_reading and stop_reading one     *)
(* after the other) and the read-loop threads it has started.  A thread's  *)
(* pc names the line of serial_reader.py it runs next.  A line of the      *)
(* device is known by its number; the reading parsed from line n is n.     *)
(* The callback is any callable: it returns or raises.                     *)

max_recent_readings == 100

CallerIdle == caller.pc = "idle" /\ ReaderFrame

Returned(op, val) == ret' = [op |-> op, val |-> val]

\* set_callback
SetCallback ==
  /\ CallerIdle
  /\ on_reading_callback' = TRUE
  /\ Returned("set_callback", TRUE)
  /\ UNCHANGED <<is_running, serial_connection, read_thread, data_queue,
                 recent_readings, thr, caller, lines_read>>
  /\ Observe("set_callback", TRUE, ReaderState)

\* a connect that forgets the connection it had when the port fails to open
ConnectDropsOnFailure ==
  /\ CallerIdle
  /\ \E opened \in BOOLEAN :
       /\ serial_connection' = IF opened THEN "open" ELSE "None"
       /\ Returned("connect", opened)
       /\ UNCHANGED <<is_running, read_thread, data_queue, recent_readings,
                      on_reading_callback, thr, caller, lines_read>>
       /\ Observe("connect", opened, ReaderState)

\* connect: serial.Serial(...) opens the port or raises SerialException
Connect ==
  /\ CallerIdle
  /\ \E opened \in BOOLEAN :
       /\ serial_connection' = IF opened THEN "open" ELSE serial_connection
       /\ Returned("connect", opened)
       /\ UNCHANGED <<is_running, read_thread, data_queue, recent_readings,
                      on_reading_callback, thr, caller, lines_read>>
       /\ Observe("connect", opened, ReaderState)

\* start_reading without the test of line 149: a running reader is started again
StartReadingAgain ==
  /\ CallerIdle
  /\ is_running
  /\ \E t \in Threads :
       /\ thr[t].pc = "unstarted"
       /\ \A u \in Threads : u < t => thr[u].pc # "unstarted"
       /\ read_thread' = t
       /\ thr' = [thr EXCEPT ![t].pc = "L115"]
  /\ Returned("start_reading", "started")
  /\ UNCHANGED <<is_running, serial_connection, data_queue, recent_readings,
                 on_reading_callback, caller, lines_read>>
  /\ Observe("start_reading", "started", ReaderState)

\* start_reading, lines 149-151: already reading
StartReadingAlready ==
  /\ CallerIdle
  /\ is_running
  /\ Returned("start_reading", "already")
  /\ UNCHANGED readerVars
  /\ Observe("start_reading", "already", ReaderState)

\* start_reading, lines 153-156: no open connection and connect() fails
StartReadingNoConnection ==
  /\ CallerIdle
  /\ ~is_running
  /\ serial_connection # "open"
  /\ Returned("start_reading", "failed")
  /\ UNCHANGED readerVars
  /\ Observe("start_reading", "failed", ReaderState)

\* start_reading, lines 153-161: the connection is open, or connect() opens
\* it; the flag is set and a new thread is created and started
StartReading ==
  /\ CallerIdle
  /\ ~is_running
  /\ \E t \in Threads :
       /\ thr[t].pc = "unstarted"
       /\ \A u \in Threads : u < t => thr[u].pc # "unstarted"
       /\ serial_connection' = "open"
       /\ is_running' = TRUE
       /\ read_thread' = t
       /\ thr' = [thr EXCEPT ![t].pc = "L115"]
  /\ Returned("start_reading", "started")
  /\ UNCHANGED <<data_queue, recent_readings, on_reading_callback, caller,
                 lines_read>>
  /\ Observe("start_reading", "started", ReaderState)

\* stop_reading, line 165
StopReading_L165 ==
  /\ CallerIdle
  /\ is_running' = FALSE
  /\ thr' = [t \in Threads |->
               IF Alive(t) THEN [thr[t] EXCEPT !.stopped = TRUE] ELSE thr[t]]
  /\ caller' = [pc |-> IF read_thread # 0 THEN "L168" ELSE "L170",
                before |-> ReaderState]
  /\ Returned("running", TRUE)
  /\ UNCHANGED <<serial_connection, read_thread, data_queue, recent_readings,
                 on_reading_callback, lines_read, call>>

\* stop_reading, line 168: join returns because the thread has ended
StopReading_L168_joined ==
  /\ caller.pc = "L168"
  /\ ReaderFrame
  /\ thr[read_thread].pc = "done"
  /\ caller' = [caller EXCEPT !.pc = "L170"]
  /\ UNCHANGED <<ret, is_running, serial_connection, read_thread, data_queue,
                 recent_readings, on_reading_callback, thr, lines_read, call>>

\* stop_reading, line 168: join(timeout=2) gives up.  The thread is inside
\* the callback, the one step of an iteration whose duration the reader does
\* not bound (readline has timeout=1, the sleeps are 0.05 s and 0.5 s).
StopReading_L168_timeout ==
  /\ caller.pc = "L168"
  /\ ReaderFrame
  /\ thr[read_thread].pc = "L135"
  /\ caller' = [caller EXCEPT !.pc = "L170"]
  /\ UNCHANGED <<ret, is_running, serial_connection, read_thread, data_queue,
                 recent_readings, on_reading_callback, thr, lines_read, call>>

\* stop_reading that returns after the join and leaves the connection open
StopReading_L170_keeps_open ==
  /\ caller.pc = "L170"
  /\ ReaderFrame
  /\ caller' = [pc |-> "idle"]
  /\ Returned("stop_reading", TRUE)
  /\ UNCHANGED <<is_running, serial_connection, read_thread, data_queue,
                 recent_readings, on_reading_callback, thr, lines_read>>
  /\ Observe("stop_reading", TRUE, caller.before)

\* stop_reading, line 170: disconnect()
StopReading_L170 ==
  /\ caller.pc = "L170"
  /\ ReaderFrame
  /\ serial_connection' =
       IF serial_connection = "open" THEN "closed" ELSE serial_connection
  /\ caller' = [pc |-> "idle"]
  /\ Returned("stop_reading", TRUE)
  /\ UNCHANGED <<is_running, read_thread, data_queue, recent_readings,
                 on_reading_callback, thr, lines_read>>
  /\ Observe("stop_reading", TRUE, caller.before)

CallerNext ==
  \/ SetCallback \/ Connect
  \/ StartReadingAlready \/ StartReadingNoConnection \/ StartReading
  \/ StopReading_L165 \/ StopReading_L168_joined \/ StopReading_L168_timeout
  \/ StopReading_L170

(* ---- _read_loop, run by thread t ---- *)

Goto(t, to) == thr' = [thr EXCEPT ![t].pc = to]

LoopStep(t, from) ==
  /\ thr[t].pc = from
  /\ UNCHANGED <<ret, is_running, serial_connection, read_thread,
                 on_reading_callback, caller, call>>
  /\ ReaderFrame

\* line 115: while self.is_running; line 145 when it is false
T_L115(t) ==
  /\ LoopStep(t, "L115")
  /\ Goto(t, IF is_running THEN "L117" ELSE "done")
  /\ UNCHANGED <<data_queue, recent_readings, lines_read>>

\* line 117 finds no connection or no byte waiting: line 139 sleeps
T_L117_idle(t) ==
  /\ LoopStep(t, "L117")
  /\ serial_connection \in {"None", "open"}
  /\ Goto(t, "L115")
  /\ UNCHANGED <<data_queue, recent_readings, lines_read>>

\* line 117 finds bytes waiting
T_L117_waiting(t) ==
  /\ LoopStep(t, "L117")
  /\ serial_connection = "open"
  /\ lines_read < MaxLines
  /\ Goto(t, "L119")
  /\ UNCHANGED <<data_queue, recent_readings, lines_read>>

\* in_waiting or readline raises (the port was closed, or a transient read
\* error): lines 141-143 print, sleep and go round the loop
T_ReadError(t) ==
  /\ thr[t].pc \in {"L117", "L119"}
  /\ serial_connection \in {"open", "closed"}
  /\ UNCHANGED <<ret, is_running, serial_connection, read_thread,
                 on_reading_callback, caller, call>>
  /\ ReaderFrame
  /\ thr' = [thr EXCEPT ![t].pc = "L115", ![t].failed = TRUE]
  /\ UNCHANGED <<data_queue, recent_readings, lines_read>>

\* lines 119-124: a line is read and parse_csv_line rejects it
T_L119_rejected(t) ==
  /\ LoopStep(t, "L119")
  /\ serial_connection = "open"
  /\ lines_read < MaxLines
  /\ lines_read' = lines_read + 1
  /\ Goto(t, "L115")
  /\ UNCHANGED <<data_queue, recent_readings>>

\* lines 119-124: a line is read and parse_csv_line returns a reading
T_L119_accepted(t) ==
  /\ LoopStep(t, "L119")
  /\ serial_connection = "open"
  /\ lines_read < MaxLines
  /\ lines_read' = lines_read + 1
  /\ thr' = [thr EXCEPT ![t].pc = "L126", ![t].reading = lines_read + 1]
  /\ UNCHANGED <<data_queue, recent_readings>>

\* line 126
T_L126(t) ==
  /\ LoopStep(t, "L126")
  /\ data_queue' = Append(data_queue, thr[t].reading)
  /\ Goto(t, "L129")
  /\ UNCHANGED <<recent_readings, lines_read>>

\* line 129
T_L129(t) ==
  /\ LoopStep(t, "L129")
  /\ recent_readings' = Append(recent_readings, thr[t].reading)
  /\ Goto(t, "L130")
  /\ UNCHANGED <<data_queue, lines_read>>

\* lines 130-131, then line 134 with no callback registered
T_L130(t) ==
  /\ LoopStep(t, "L130")
  /\ recent_readings' = IF Len(recent_readings) > max_recent_readings
                        THEN Tail(recent_readings) ELSE recent_readings
  /\ thr' = IF on_reading_callback
            THEN [thr EXCEPT ![t].pc = "L135"]
            ELSE [thr EXCEPT ![t].pc = "L115", ![t].reading = 0]
  /\ UNCHANGED <<data_queue, lines_read>>

\* line 135: the callback returns
T_L135_return(t) ==
  /\ LoopStep(t, "L135")
  /\ thr' = [thr EXCEPT ![t].pc = "L115", ![t].reading = 0]
  /\ UNCHANGED <<data_queue, recent_readings, lines_read>>

\* a loop without the except clause: the callback's exception ends the thread
T_L135_raise_exits(t) ==
  /\ LoopStep(t, "L135")
  /\ thr' = [thr EXCEPT ![t].pc = "done", ![t].reading = 0, ![t].failed = TRUE]
  /\ UNCHANGED <<data_queue, recent_readings, lines_read>>

\* line 135: the callback raises; lines 141-143
T_L135_raise(t) ==
  /\ LoopStep(t, "L135")
  /\ thr' = [thr EXCEPT ![t].pc = "L115", ![t].reading = 0, ![t].failed = TRUE]
  /\ UNCHANGED <<data_queue, recent_readings, lines_read>>

ReadLoop(t) ==
  \/ T_L115(t)
  \/ T_L117_idle(t) \/ T_L117_waiting(t) \/ T_ReadError(t)
  \/ T_L119_rejected(t) \/ T_L119_accepted(t)
  \/ T_L126(t) \/ T_L129(t) \/ T_L130(t)
  \/ T_L135_return(t) \/ T_L135_raise(t)

NextReader == CallerNext \/ \E t \in Threads : ReadLoop(t)

SpecReader == Init /\ [][NextReader]_vars

\* the operating system schedules every started thread again and again, and
\* a call of the callback ends
FairSpecReader == SpecReader /\ \A t \in Threads : WF_vars(ReadLoop(t))

(* ---- the reader when its history is full ---- *)

\* the readings accepted before line 1 of the device: numbered ..., -1, 0
PastReadings ==
  [i \in 1..max_recent_readings |-> i - max_recent_readings]

\* set_callback, connect and start_reading have been called, the loop has
\* accepted max_recent_readings lines and is about to test line 115
InitHistory ==
  /\ InitAgg
  /\ InitConc
  /\ is_running = TRUE
  /\ serial_connection = "open"
  /\ read_thread = 1
  /\ data_queue = PastReadings
  /\ recent_readings = PastReadings
  /\ on_reading_callback = TRUE
  /\ thr = [t \in Threads |->
              IF t = 1 THEN [NewThread EXCEPT !.pc = "L115"] ELSE NewThread]
  /\ caller = [pc |-> "idle"]
  /\ lines_read = 0
  /\ call = NoCall
  /\ InitParse

SpecHistory == InitHistory /\ [][NextReader]_vars

(* ---- the reader restarted while a callback is still running ---- *)

\* set_callback and start_reading have been called, the loop has accepted
\* the line numbered -1 and is inside the callback; stop_reading has given up
\* the join, closed the port and returned.  The device sends lines 0, 1, ...
InitRestart ==
  /\ InitAgg
  /\ InitConc
  /\ is_running = FALSE
  /\ serial_connection = "closed"
  /\ read_thread = 1
  /\ data_queue = <<-1>>
  /\ recent_readings = <<-1>>
  /\ on_reading_callback = TRUE
  /\ thr = [t \in Threads |->
              IF t = 1
              THEN [pc |-> "L135", reading |-> -1, stopped |-> TRUE,
                    failed |-> FALSE]
              ELSE NewThread]
  /\ caller = [pc |-> "idle"]
  /\ lines_read = -1
  /\ call = NoCall
  /\ InitParse

SpecRestart == InitRestart /\ [][NextReader]_vars

Updated == ret.op = "process_reading"

(* ====================== parse_csv_line ====================== *)
(* A line is a sequence of characters.  A word the parser looks for, and  *)
(* a timestamp, is written as one character of the sequence: what the     *)
(* parser asks of it is whether the line starts with it, contains it, or  *)
(* whether strptime accepts it.  Numbers are written digit by digit.      *)

TS == "2025-12-31 14:30:15"
BadTS == "2025-13-31 14:30:15"
Digits == {"0", "1", "2", "5"}
Whitespace == {" ", "\n"}

RECURSIVE lstrip(_)
lstrip(s) == IF s # <<>> /\ Head(s) \in Whitespace THEN lstrip(Tail(s)) ELSE s

RECURSIVE rstrip(_)
rstrip(s) ==
  IF s # <<>> /\ s[Len(s)] \in Whitespace
  THEN rstrip(SubSeq(s, 1, Len(s) - 1))
  ELSE s

\* str.strip()
strip(s) == rstrip(lstrip(s))

\* str.startswith(word)
startswith(s, word) == s # <<>> /\ Head(s) = word

\* word in str
contains(s, word) == \E i \in 1..Len(s) : s[i] = word

\* str.split(","): one field more than there are commas
RECURSIVE split(_)
split(s) ==
  IF ~contains(s, ",")
  THEN <<s>>
  ELSE LET i == CHOOSE k \in 1..Len(s) :
                  s[k] = "," /\ \A j \in 1..(k - 1) : s[j] # ","
       IN  <<SubSeq(s, 1, i - 1)>> \o split(SubSeq(s, i + 1, Len(s)))

\* what an expression of the try block gives: a value, or an exception
Value(v) == [exc |-> "none", value |-> v]
Raised(e) == [exc |-> e]

DigitValue(c) ==
  CASE c = "0" -> 0 [] c = "1" -> 1 [] c = "2" -> 2 [] c = "5" -> 5

RECURSIVE Decimal(_)
Decimal(ds) ==
  IF ds = <<>> THEN 0
  ELSE 10 * Decimal(SubSeq(ds, 1, Len(ds) - 1)) + DigitValue(ds[Len(ds)])

AllDigits(ds) == \A i \in 1..Len(ds) : ds[i] \in Digits

Signed(t) == t # <<>> /\ Head(t) \in {"-", "+"}
Unsigned(t) == IF Signed(t) THEN Tail(t) ELSE t
Sign(t) == IF t # <<>> /\ Head(t) = "-" THEN -1 ELSE 1

\* datetime.strptime(text, "%Y-%m-%d %H:%M:%S")
strptime(text) == IF text = <<TS>> THEN Value(1) ELSE Raised("ValueError")

\* int(text): blanks around it, a sign, digits
int(text) ==
  LET t == strip(text)
      ds == Unsigned(t)
  IN  IF ds # <<>> /\ AllDigits(ds)
      THEN Value(Sign(t) * Decimal(ds))
      ELSE Raised("ValueError")

\* float(text), in hundredths: blanks around it, a sign, digits with at most
\* one point and at most two digits after it
float(text) ==
  LET t == strip(text)
      ds == Unsigned(t)
      parts == split([i \in 1..Len(ds) |-> IF ds[i] = "." THEN "," ELSE ds[i]])
      whole == parts[1]
      frac == IF Len(parts) = 2 THEN parts[2] ELSE <<>>
  IN  IF /\ Len(parts) <= 2
         /\ ~contains(ds, ",")
         /\ AllDigits(whole) /\ AllDigits(frac)
         /\ whole \o frac # <<>>
         /\ Len(frac) <= 2
      THEN Value(Sign(t) * (100 * Decimal(whole)
                              + (IF Len(frac) = 1 THEN 10 ELSE 1) * Decimal(frac)))
      ELSE Raised("ValueError")

None == [kind |-> "None"]
Accepted(reading) == [kind |-> "reading", reading |-> reading]
Escaped(e) == [kind |-> "raise", exc |-> e]

\* lines 77-105, the try block: the SensorReading, None, or the exception
\* that leaves the block
parse_csv_line_try(line) ==
  IF \/ startswith(line, "Sedentary")
     \/ startswith(line, "CSV")
     \/ startswith(line, "-")
  THEN None
  ELSE IF contains(line, "SEDENTARY ALERT") \/ contains(line, "inactive for")
  THEN None
  ELSE
    LET parts == split(strip(line))
    IN  IF Len(parts) # 5 THEN None
        ELSE
          LET timestamp == strptime(parts[1])
              pir == int(parts[2])
              delta_mag == float(parts[3])
              inactive_seconds == int(parts[4])
              alerted == int(parts[5])
          IN  CASE timestamp.exc # "none" -> Escaped(timestamp.exc)
                [] pir.exc # "none" -> Escaped(pir.exc)
                [] delta_mag.exc # "none" -> Escaped(delta_mag.exc)
                [] inactive_seconds.exc # "none" -> Escaped(inactive_seconds.exc)
                [] alerted.exc # "none" -> Escaped(alerted.exc)
                [] OTHER ->
                     Accepted([timestamp |-> timestamp.value,
                               pir |-> pir.value,
                               delta_mag |-> delta_mag.value,
                               inactive_seconds |-> inactive_seconds.value,
                               alerted |-> alerted.value])

\* a parser whose except clause names IndexError alone
parse_csv_line_catches_IndexError(line) ==
  LET out == parse_csv_line_try(line)
  IN  IF out.kind = "raise" /\ out.exc \in {"IndexError"} THEN None ELSE out

\* parse_csv_line: lines 107-109 turn ValueError and IndexError into None
parse_csv_line(line) ==
  LET out == parse_csv_line_try(line)
  IN  IF out.kind = "raise" /\ out.exc \in {"ValueError", "IndexError"}
      THEN None
      ELSE out

(* ---- the lines the parser is given ---- *)

RECURSIVE Join(_)
Join(fields) ==
  IF Len(fields) = 0 THEN <<>>
  ELSE IF Len(fields) = 1 THEN fields[1]
  ELSE fields[1] \o <<",">> \o Join(Tail(fields))

\* texts for the five places of a line, well-formed and not
TimestampTexts ==
  {<<TS>>, <<BadTS>>, <<"Sedentary", " ", "1">>, <<"CSV">>, <<"-", "5">>,
   <<"1">>, <<>>}
FlagTexts ==
  {<<"1">>, <<"0">>, <<"2">>, <<" ", "1">>, <<"0", ".", "5">>, <<"x">>, <<>>}
DeltaTexts ==
  {<<"0", ".", "5">>, <<"1">>, <<"-", "5">>, <<".", "0", "5">>, <<"x">>,
   <<"inactive for", " ", "2", "0">>}
SecondsTexts ==
  {<<"5">>, <<"0">>, <<"-", "5">>, <<"0", ".", "5">>, <<"x">>,
   <<"SEDENTARY ALERT">>}

FiveFieldLines ==
  {<<a, b, c, d, e>> : a \in TimestampTexts, b \in FlagTexts, c \in DeltaTexts,
                       d \in SecondsTexts, e \in FlagTexts}

\* lines of up to MaxFields fields, a blank line among them
AnyFieldLines ==
  UNION {[1..n -> {<<TS>>, <<"1">>, <<>>}] : n \in 1..MaxFields}

\* a line as readline returns it, with its line end or cut short of it
Lines ==
  {[fields |-> fs, text |-> Join(fs) \o eol] :
     fs \in FiveFieldLines \cup AnyFieldLines, eol \in {<<>>, <<"\n">>}}

NoLine == [fields |-> <<>>, text |-> <<>>]
NotParsed == [kind |-> "not parsed"]

\* line 119: readline returns a line
ReadLine ==
  /\ sent = NoLine
  /\ sent' \in Lines
  /\ UNCHANGED <<parsed, ret>>
  /\ ParseFrame

\* line 122
ParseCsvLine ==
  /\ sent # NoLine
  /\ parsed = NotParsed
  /\ parsed' = parse_csv_line(sent.text)
  /\ UNCHANGED <<sent, ret>>
  /\ ParseFrame

\* lines 124-135: the reading is handed to the callback, which classifies it
\* and updates the aggregator
DeliverReading ==
  /\ parsed.kind = "reading"
  /\ ~Updated
  /\ ProcessReading(parsed.reading)
  /\ results' = Append(results, ret'.val)
  /\ UNCHANGED <<hist, run>>

NextParse == ReadLine \/ ParseCsvLine \/ DeliverReading

SpecParse == Init /\ [][NextParse]_vars

(* ======================= properties ======================= *)


\* C1: every snapshot returned by get_session_stats, whatever update runs on
\* the read loop's thread meanwhile, has total readings = active + inactive.
StatsSnapshotConsistent ==
  ret.op = "get_session_stats" =>
    ret.val.total_readings
      = ret.val.total_active_time_seconds + ret.val.total_inactive_time_seconds

\* C2: when reset_stats has overlapped exactly one process_reading and both
\* have finished, the aggregator is in the state of one of the serial orders:
\* update then reset (the initial state) or reset then update.
ResetUpdateSerializable ==
  (race.phase = "settled" /\ race.overlaps = 1) =>
    dp \in {NewDataProcessor, process_reading(NewDataProcessor, race.reading).self}

\* C3: at most one read loop of the reader is executing at any time.
OneReadLoop ==
  Cardinality({t \in Threads : Alive(t)}) <= 1

\* C4: a read loop that is running when stop_reading is called eventually
\* exits, whatever is called on the reader afterwards.
StoppedLoopExits ==
  \A t \in Threads : thr[t].stopped ~> (thr[t].pc = "done")

\* C5 as stated: over every run of N >= 1 consecutive updates whose readings
\* all carry alerted = 1 and none of which is classified Active, alert_count
\* ends exactly 1 above its value before the run.
AlertRunAddsExactlyOne ==
  run.n >= 1 => dp.alert_count = run.base + 1

\* C5 as amended: over every such run alert_count ends exactly 1 above its
\* value before the run when the debounce flag is_alerted was clear before the
\* run, and unchanged when the flag was already set; never N > 1 above.
AlertRunAddsOneIffNotAlerted ==
  run.n >= 1 => dp.alert_count = run.base + (IF run.flag THEN 0 ELSE 1)

AlertRunWitness ==
  run.n >= 2 /\ ~run.flag /\ dp.alert_count = run.base + 1

\* C6: within a maximal run of consecutive readings not classified Active,
\* alert_count increases by at most 1 in total, however many of the readings
\* carry alerted = 1.
OneAlertPerInactiveEpisode ==
  seen.episode_alerts <= 1

OneAlertPerInactiveEpisodeWitness ==
  seen.episode_flagged >= 2 /\ seen.episode_alerts = 1

\* C7: an update never decreases longest_inactive_period.
LongestInactiveMonotone ==
  Updated => dp.longest_inactive_period >= seen.longest_before

LongestInactiveMonotoneWitness ==
  /\ Updated
  /\ ret.val.activity_state # ACTIVE
  /\ ret.val.inactive_seconds < seen.longest_before
  /\ dp.longest_inactive_period = seen.longest_before

\* C8: get_session_stats called after reset_stats (one reset or several, with
\* no update since) returns total readings 0, active and inactive seconds 0,
\* longest inactive period 0, alert count 0 and active percentage 0.0.
StatsAfterResetAllZero ==
  (ret.op = "get_session_stats" /\ seen.resets >= 1) => ret.val = AllZeroStats

StatsAfterResetWitness ==
  /\ ret.op = "get_session_stats"
  /\ seen.resets = 2
  /\ seen.reset_from = MaxReadings

\* C9: after n >= 1 applications of the smoothing filter since start or the
\* last reset the window holds the last min(n, W) deltas in arrival order, its
\* length never exceeds W, it is empty only before the first application, and
\* the value returned is the arithmetic mean of those min(n, W) deltas.
SmoothingWindowIsLastW ==
  LET n == Len(hist)
      k == Min(n, MOVING_AVERAGE_WINDOW)
  IN  /\ Len(dp.delta_mag_buffer) <= MOVING_AVERAGE_WINDOW
      /\ (dp.delta_mag_buffer = <<>>) <=> (n = 0)
      /\ dp.delta_mag_buffer = LastN(hist, k)
      /\ Updated =>
           /\ n >= 1
           /\ ret.val.delta_mag_smoothed.den = k
           /\ ret.val.delta_mag_smoothed.num = SumSeq(LastN(hist, k))

SmoothingWindowWitness ==
  /\ Updated
  /\ Len(hist) = MOVING_AVERAGE_WINDOW + 2
  /\ hist[1] # hist[MOVING_AVERAGE_WINDOW + 1]
  /\ hist[2] # hist[MOVING_AVERAGE_WINDOW + 2]

\* the six rows of the classification table: the smoothed delta lies in
\* [lo, hi) (hi = 0 for no upper end), the motion flag, the state, the confidence
ClassifierTable ==
  {[lo |-> DELTA_MAG_ACTIVE_THRESHOLD, hi |-> 0, motion |-> TRUE,
    state |-> ACTIVE, confidence |-> 10],
   [lo |-> DELTA_MAG_ACTIVE_THRESHOLD, hi |-> 0, motion |-> FALSE,
    state |-> ACTIVE, confidence |-> 8],
   [lo |-> DELTA_MAG_TRANSITION_THRESHOLD, hi |-> DELTA_MAG_ACTIVE_THRESHOLD,
    motion |-> TRUE, state |-> ACTIVE, confidence |-> 7],
   [lo |-> DELTA_MAG_TRANSITION_THRESHOLD, hi |-> DELTA_MAG_ACTIVE_THRESHOLD,
    motion |-> FALSE, state |-> TRANSITION, confidence |-> 6],
   [lo |-> -1, hi |-> DELTA_MAG_TRANSITION_THRESHOLD, motion |-> TRUE,
    state |-> ACTIVE, confidence |-> 6],
   [lo |-> -1, hi |-> DELTA_MAG_TRANSITION_THRESHOLD, motion |-> FALSE,
    state |-> INACTIVE, confidence |-> 9]}

RowApplies(row, motion, d) ==
  /\ row.motion = motion
  /\ row.lo = -1 \/ d.num >= row.lo * d.den
  /\ row.hi = 0 \/ d.num < row.hi * d.den

\* C10: for every (motion flag, smoothed delta) exactly one row of the table
\* applies and the classifier returns that row's state and confidence; a delta
\* equal to a threshold falls in the row of the ">=".
ClassifierMatchesTable ==
  Updated =>
    LET rows == {row \in ClassifierTable :
                   RowApplies(row, ret.val.pir = 1, ret.val.delta_mag_smoothed)}
    IN  /\ Cardinality(rows) = 1
        /\ \A row \in rows :
             /\ ret.val.activity_state = row.state
             /\ ret.val.confidence = row.confidence

ClassifierBoundaryWitness ==
  /\ Updated
  /\ ret.val.pir = 0
  /\ ret.val.delta_mag_smoothed.den = 2
  /\ ret.val.delta_mag_smoothed.num
       = DELTA_MAG_TRANSITION_THRESHOLD * ret.val.delta_mag_smoothed.den
  /\ ret.val.activity_state = TRANSITION
  /\ ret.val.confidence = 6

\* the three readings of the scenario as (pir, delta_mag, inactive_seconds,
\* alerted), and the run that has processed exactly them since start or reset
ScenarioInput ==
  <<<<0, 10, 1, 0>>, <<1, 60, 0, 0>>, <<0, 5, 1, 0>>>>

ScenarioFed ==
  /\ Updated
  /\ Len(results) = 3
  /\ \A i \in 1..3 :
       <<results[i].pir, results[i].delta_mag, results[i].inactive_seconds,
         results[i].alerted>> = ScenarioInput[i]

Classifications(rs) ==
  [i \in 1..Len(rs) |-> <<rs[i].activity_state, rs[i].confidence>>]

ScenarioCounts ==
  /\ dp.total_active_readings = 1
  /\ dp.total_inactive_readings = 2
  /\ dp.alert_count = 0

\* C11 as stated: the scenario's readings are classified Inactive 0.9,
\* Active 1.0, Inactive 0.9, and leave 1 active, 2 inactive, 0 alerts.
ScenarioAsStated ==
  ScenarioFed =>
    /\ Classifications(results)
         = <<<<INACTIVE, 9>>, <<ACTIVE, 10>>, <<INACTIVE, 9>>>>
    /\ ScenarioCounts

\* C11 amended: the classifier sees the window's mean (0.1, 0.35, 0.25), so
\* the scenario's readings are classified Inactive 0.9, Active 0.7,
\* Transition 0.6, and leave 1 active, 2 inactive, 0 alerts.
ScenarioOnSmoothedDeltas ==
  ScenarioFed =>
    /\ Classifications(results)
         = <<<<INACTIVE, 9>>, <<ACTIVE, 7>>, <<TRANSITION, 6>>>>
    /\ ScenarioCounts

ScenarioWitness ==
  /\ ScenarioFed
  /\ dp.total_readings = 3
  /\ dp.delta_mag_buffer = <<10, 60, 5>>

Range(s) == {s[i] : i \in 1..Len(s)}

\* C12: an accepted reading is pushed onto the recent-history buffer before
\* it is pushed onto the hand-off queue: every reading in the queue is in
\* the history (no reading has been evicted from it within these bounds).
QueuedAfterHistory ==
  Range(data_queue) \subseteq Range(recent_readings)

\* C13: start_reading called on a reader with no open connection launches no
\* read loop, does not set the running flag and leaves the reader unchanged.
StartNeedsConnection ==
  (call.op = "start_reading" /\ call.before.serial_connection # "open") =>
    /\ call.val # "started"
    /\ ~call.after.is_running
    /\ call.after.loops = call.before.loops
    /\ call.after = call.before

\* C14: start_reading called on a running reader returns at once: no read
\* loop is launched, no connection is opened, and the running flag, the
\* thread handle, the connection, the queue and the history are unchanged.
StartWhileRunningIsNoOp ==
  (call.op = "start_reading" /\ call.before.is_running) =>
    /\ call.val = "already"
    /\ call.after = call.before

StartWhileRunningWitness ==
  /\ call.op = "start_reading"
  /\ call.before.is_running
  /\ call.before.loops # {}
  /\ call.before.data_queue # <<>>

\* C15: stop_reading returns from every state of the reader, and when it
\* returns the running flag is clear and no connection is open; on a reader
\* that was never connected or never started nothing else has changed.
StopLeavesDisconnected ==
  call.op = "stop_reading" =>
    /\ ~call.after.is_running
    /\ call.after.serial_connection # "open"
    /\ (call.before.serial_connection = "None") =>
          (call.after.serial_connection = "None")
    /\ (call.before.read_thread = 0) =>
          /\ call.after.loops = {}
          /\ call.after.read_thread = 0
          /\ call.after.data_queue = call.before.data_queue
          /\ call.after.recent_readings = call.before.recent_readings

StopLeavesDisconnectedWitness ==
  /\ call.op = "stop_reading"
  /\ call.before.is_running
  /\ call.before.serial_connection = "open"
  /\ call.before.loops # {}
  /\ call.after.serial_connection = "closed"

\* C16 as stated: a connect that fails returns failure and, from whatever
\* state it was called in, leaves the reader with no open connection and
\* not running.
FailedConnectLeavesDisconnected ==
  (call.op = "connect" /\ call.val = FALSE) =>
    /\ call.after.serial_connection # "open"
    /\ ~call.after.is_running

\* C16 amended: a connect that fails returns failure and leaves the reader as
\* it was, so a reader with no open connection and not running stays so.
FailedConnectChangesNothing ==
  (call.op = "connect" /\ call.val = FALSE) =>
    /\ call.after = call.before
    /\ (call.before.serial_connection # "open" /\ ~call.before.is_running) =>
         (call.after.serial_connection # "open" /\ ~call.after.is_running)

FailedConnectWitness ==
  /\ call.op = "connect"
  /\ call.val = FALSE
  /\ call.before.serial_connection = "closed"
  /\ ~call.before.is_running

Appended ==
  LET held == {thr[t].reading : t \in {u \in Threads : thr[u].pc = "L129"}}
      Stored(r) == r \notin held
  IN  SelectSeq(data_queue, Stored)

\* C18: in every state another thread can observe, the recent-history buffer
\* holds at most max_recent_readings readings, and they are the most recently
\* accepted ones in the order they were accepted.
RecentHistoryBounded ==
  /\ Len(recent_readings) <= max_recent_readings
  /\ recent_readings
       = LastN(Appended, Min(Len(Appended), max_recent_readings))

\* the numbers among the texts above, by what is written: integers, and
\* decimals in hundredths
IntTable ==
  (<<"0">> :> 0) @@ (<<"1">> :> 1) @@ (<<"2">> :> 2) @@ (<<"5">> :> 5)
    @@ (<<" ", "1">> :> 1) @@ (<<"-", "5">> :> -5)
DecimalTable ==
  (<<"0">> :> 0) @@ (<<"1">> :> 100) @@ (<<"5">> :> 500)
    @@ (<<"-", "5">> :> -500) @@ (<<"0", ".", "5">> :> 50)
    @@ (<<".", "0", "5">> :> 5)

AlertWords == {"SEDENTARY ALERT", "inactive for"}
BannerWords == {"Sedentary", "CSV", "-"}

\* the lines the frame parser is to reject
Blank(l) == \A i \in 1..Len(l.text) : l.text[i] \in Whitespace
Banner(l) == l.text # <<>> /\ l.text[1] \in BannerWords
AlertMessage(l) ==
  \E i \in 1..Len(l.fields) : \E j \in 1..Len(l.fields[i]) :
    l.fields[i][j] \in AlertWords
WrongFieldCount(l) == Len(l.fields) # 5
Malformed(l) ==
  /\ Len(l.fields) = 5
  /\ \/ l.fields[1] # <<TS>>
     \/ l.fields[2] \notin DOMAIN IntTable
     \/ l.fields[3] \notin DOMAIN DecimalTable
     \/ l.fields[4] \notin DOMAIN IntTable
     \/ l.fields[5] \notin DOMAIN IntTable
ToReject(l) ==
  Blank(l) \/ Banner(l) \/ AlertMessage(l) \/ WrongFieldCount(l) \/ Malformed(l)

\* C19: parse_csv_line raises nothing; it returns None for a line that is
\* blank, starts with a banner word, holds an alert word, has other than 5
\* fields or a malformed timestamp or number, and for every other line a
\* SensorReading whose five fields are the values written in the line.
ParserTotalAndExact ==
  parsed # NotParsed =>
    /\ parsed.kind \in {"None", "reading"}
    /\ ToReject(sent) => parsed = None
    /\ ~ToReject(sent) =>
         parsed = Accepted([timestamp |-> 1,
                            pir |-> IntTable[sent.fields[2]],
                            delta_mag |-> DecimalTable[sent.fields[3]],
                            inactive_seconds |-> IntTable[sent.fields[4]],
                            alerted |-> IntTable[sent.fields[5]]])

ParserTotalAndExactWitness ==
  /\ parsed.kind = "reading"
  /\ sent.fields = <<<<TS>>, <<" ", "1">>, <<".", "0", "5">>, <<"5">>, <<"0">>>>
  /\ sent.text[Len(sent.text)] = "\n"
  /\ parsed.reading.delta_mag = 5

\* C20: a reading that the parser accepted and the callback handed to the
\* classifier and the aggregator has flags that are 0 or 1 and a delta
\* magnitude and inactive seconds that are not negative.
DeliveredReadingInSchema ==
  Updated =>
    /\ ret.val.pir \in {0, 1}
    /\ ret.val.alerted \in {0, 1}
    /\ ret.val.delta_mag >= 0
    /\ ret.val.inactive_seconds >= 0

(* ---- the live status ---- *)

\* the state the two thresholds of the classifier give a window of deltas,
\* without the motion flag: the mean is compared as sum against threshold * n
WindowState(buffer) ==
  IF buffer = <<>> THEN INACTIVE
  ELSE IF SumSeq(buffer) >= DELTA_MAG_ACTIVE_THRESHOLD * Len(buffer)
  THEN ACTIVE
  ELSE IF SumSeq(buffer) >= DELTA_MAG_TRANSITION_THRESHOLD * Len(buffer)
  THEN TRANSITION
  ELSE INACTIVE

StatusReturned == ret.op = "get_current_status"

ConfidenceHighIffWindowFull ==
  StatusReturned =>
    ret.val.confidence =
      IF Len(hist) >= MOVING_AVERAGE_WINDOW THEN 9 ELSE 5

(* ---- the counters of the aggregator ---- *)

\* C23: after every update total_readings = total_active_readings +
\* total_inactive_readings; an update adds 1 to total_readings, and 1 to the
\* active count alone if the reading is classified Active, to the inactive
\* count alone if it is classified Inactive or Transition.
CountsPartitionReadings ==
  /\ [](dp.total_readings
          = dp.total_active_readings + dp.total_inactive_readings)
  /\ [][ret'.op = "process_reading" =>
          /\ dp'.total_readings = dp.total_readings + 1
          /\ dp'.total_active_readings = dp.total_active_readings
               + (IF ret'.val.activity_state = ACTIVE THEN 1 ELSE 0)
          /\ dp'.total_inactive_readings = dp.total_inactive_readings
               + (IF ret'.val.activity_state \in {INACTIVE, TRANSITION}
                  THEN 1 ELSE 0)]_vars

\* an Active, an Inactive and a Transition reading counted, the last one now
CountsPartitionReadingsWitness ==
  /\ Updated
  /\ ret.val.activity_state = TRANSITION
  /\ dp.total_active_readings = 1
  /\ dp.total_inactive_readings = 2
  /\ dp.total_readings = 3

\* the inactive_seconds reported by the readings since the start or the last
\* reset that were not classified Active
ReportedByNonActive ==
  {results[i].inactive_seconds :
     i \in {j \in 1..Len(results) : results[j].activity_state # ACTIVE}}

\* C24: longest_inactive_period is the largest inactive_seconds reported by a
\* reading not classified Active since the start or the last reset, 0 if there
\* is none; Active readings and the streak count have no part in it.
LongestIsMaxReported ==
  /\ ReportedByNonActive = {} => dp.longest_inactive_period = 0
  /\ ReportedByNonActive # {} =>
       /\ dp.longest_inactive_period \in ReportedByNonActive
       /\ \A s \in ReportedByNonActive : s <= dp.longest_inactive_period

(* ---- the reader after stop_reading ---- *)

\* stop_reading is the last call on the reader to have returned, and no call
\* is in progress
StopReturned == caller.pc = "idle" /\ call.op = "stop_reading"

\* C26: from the return of stop_reading until the next call of start_reading
\* no callback is in progress, none starts, and no reading is added to the
\* hand-off queue or to the recent history.
NothingAfterStop ==
  /\ [](StopReturned => \A t \in Threads : thr[t].pc # "L135")
  /\ [][(StopReturned /\ StopReturned') =>
          /\ data_queue' = data_queue
          /\ recent_readings' = recent_readings
          /\ \A t \in Threads : thr'[t].pc = "L135" => thr[t].pc = "L135"]_vars

(* ---- what the read loop does with a line ---- *)

\* a line is read and the parser rejects it: no thread goes on to line 126
RejectedLine ==
  /\ lines_read' = lines_read + 1
  /\ \A t \in Threads : thr[t].pc = "L119" => thr'[t].pc # "L126"

\* thread t calls the callback
CallbackStarts(t) == thr[t].pc # "L135" /\ thr'[t].pc = "L135"

\* the accepted line a thread holds and has not yet called the callback with
AwaitsCallback(t) == thr[t].pc \in {"L126", "L129", "L130"}

TimesQueued(reading) ==
  Cardinality({i \in 1..Len(data_queue) : data_queue[i] = reading})

\* C25: a rejected line changes neither the hand-off queue nor the recent
\* history nor the aggregator and starts no callback; an accepted line is in
\* the queue once from line 126 on, the callback is called with it once, after
\* it is stored, and the callbacks start in the order the lines were read: no
\* callback runs for a line read after a line that still awaits its own.
DeliveredOnceInOrder ==
  /\ [][RejectedLine =>
          /\ UNCHANGED <<data_queue, recent_readings, dp>>
          /\ \A t \in Threads : ~CallbackStarts(t)]_vars
  /\ [](\A t \in Threads :
          /\ thr[t].pc = "L126" => TimesQueued(thr[t].reading) = 0
          /\ thr[t].pc \in {"L129", "L130", "L135"} =>
               TimesQueued(thr[t].reading) = 1)
  /\ [](\A i, j \in 1..Len(data_queue) : i # j => data_queue[i] # data_queue[j])
  /\ [][\A t \in Threads :
          /\ CallbackStarts(t) => thr[t].pc = "L130"
          /\ (thr[t].pc = "L130" /\ thr'[t].pc # "L130" /\ on_reading_callback)
               => thr'[t].pc = "L135"
          /\ (thr[t].pc = "L135" /\ thr'[t].pc # "L135")
               => thr'[t].pc = "L115"]_vars
  /\ [](on_reading_callback =>
          \A t, u \in Threads :
            (AwaitsCallback(t) /\ thr[u].pc = "L135") =>
              thr[u].reading < thr[t].reading)

====
